---- MODULE Spec2Model ----
(***************************************************************************)
(* Model of the pulsego callback trampolines (pulsego.c / pulsego.h).      *)
(*                                                                         *)
(* The three adapters card_info_cb, sink_info_cb and context_subscribe_cb  *)
(* are called by the PulseAudio client library's dispatch loop and forward *)
(* to the host handlers go_card_info_cb, go_sink_info_cb and               *)
(* go_context_subscribe_cb.  An adapter is modelled by the sequence of     *)
(* host-handler invocations its body performs; the event source and the    *)
(* host handlers' outcome are the environment.                             *)
(***************************************************************************)
EXTENDS Integers, Sequences, FiniteSets, TLC

(* Longest history of adapter calls that is explored. *)
MaxCalls == 3

(* ------------------------------------------------------------------ *)
(* Value domains of the C parameter types                              *)
(* ------------------------------------------------------------------ *)

(* pa_context *c : handles of the event source. *)
Contexts == {1, 2}

(* void *userdata : the opaque registration context (non-null). *)
UserData == {1, 2}

(* Addresses of the snapshot buffers the event source owns; 0 is NULL. *)
NULL == 0
Addrs == {1, 2}

(* uint32_t values, kept as two 16-bit halves. *)
Half == 2 ^ 16
U32(hi, lo) == [hi |-> hi % Half, lo |-> lo % Half]

(* The subscription events the event source reports: a                  *)
(* pa_subscription_event_type_t (facility | action) and a uint32_t      *)
(* index.  SINK|CHANGE for index 3, CARD|REMOVE for index 0xFFFFFFFF.   *)
Events == {[t |-> 16, idx |-> U32(0, 3)],
           [t |-> 41, idx |-> U32(Half - 1, Half - 1)]}

(* Contents of a pa_card_info / pa_sink_info snapshot (its index field). *)
NoFields == [valid |-> FALSE, index |-> 0]

(* The snapshots the event source delivers: the buffer and what it holds. *)
Snapshots == {[addr |-> 1, fields |-> [valid |-> TRUE, index |-> 0]],
              [addr |-> 2, fields |-> [valid |-> TRUE, index |-> 7]]}

(* What a host handler can do with an invocation. *)
Outcomes == {"return", "fail"}

ListAdapters == {"card_info_cb", "sink_info_cb"}

VARIABLES
    query,      \* the list query the event source is answering, if any
    sub,        \* the event subscription, if any
    srcCalls,   \* history of the adapter calls the event source made
    hostLog,    \* history of the host-handler invocations
    dispatch,   \* the event source's dispatch loop
    failedIn    \* adapter during whose call a host handler failed

vars == <<query, sub, srcCalls, hostLog, dispatch, failedIn>>

Idle == [state |-> "idle", fn |-> "none", c |-> 0, userdata |-> 0]

(* ------------------------------------------------------------------ *)
(* Pointers                                                            *)
(* ------------------------------------------------------------------ *)

(* A `const T *` value as the event source passes it. *)
ConstPtr(a) == [addr |-> a, const |-> TRUE]

(* Variant: the cast yields the first buffer whatever it is given. *)
ConstCast_FirstBuffer(p) ==
    [addr |-> IF p.addr = NULL THEN NULL ELSE 1, const |-> FALSE]

(* The cast of i to a pointer to non-const: it drops the qualifier and  *)
(* keeps the address.                                                  *)
ConstCast(p) == [addr |-> p.addr, const |-> FALSE]

(* The snapshot buffers of the event source outside of a notification:  *)
(* none holds a snapshot.                                               *)
FreeMem == [a \in Addrs |-> NoFields]

(* What a dereference of p yields in memory m. *)
Deref(m, p) == IF p.addr = NULL THEN NoFields ELSE m[p.addr]

(* ------------------------------------------------------------------ *)
(* Host handlers (declared in pulsego.h): the invocation they receive  *)
(* ------------------------------------------------------------------ *)

go_card_info_cb(i, eol, userdata) ==
    [fn |-> "go_card_info_cb", i |-> i, eol |-> eol, userdata |-> userdata]

go_sink_info_cb(i, eol, userdata) ==
    [fn |-> "go_sink_info_cb", i |-> i, eol |-> eol, userdata |-> userdata]

go_context_subscribe_cb(t, idx, userdata) ==
    [fn |-> "go_context_subscribe_cb", t |-> t, idx |-> U32(idx.hi, idx.lo),
     userdata |-> userdata]

(* ------------------------------------------------------------------ *)
(* The adapters: the host-handler invocations their bodies perform     *)
(* ------------------------------------------------------------------ *)

(* Variant: the handler is called twice. *)
card_info_cb_Twice(c, i, eol, userdata) ==
    << go_card_info_cb(ConstCast(i), eol, userdata),
       go_card_info_cb(ConstCast(i), eol, userdata) >>

(* Variant: the flag is not forwarded. *)
card_info_cb_NoEol(c, i, eol, userdata) ==
    << go_card_info_cb(ConstCast(i), 0, userdata) >>

(* Variant: the flag counts the notifications relayed so far. *)
card_info_cb_Counting(c, i, eol, userdata) ==
    << go_card_info_cb(ConstCast(i), eol + Len(hostLog), userdata) >>

card_info_cb(c, i, eol, userdata) ==
    << go_card_info_cb(ConstCast(i), eol, userdata) >>

(* Variant: the source handle is passed on as userdata. *)
sink_info_cb_HandleAsUserdata(c, i, eol, userdata) ==
    << go_sink_info_cb(ConstCast(i), eol, c) >>

(* Variant: the end of the list is not relayed. *)
sink_info_cb_DropsEnd(c, i, eol, userdata) ==
    IF eol # 0 THEN << >> ELSE << go_sink_info_cb(ConstCast(i), eol, userdata) >>

(* Variant: the card handler is called. *)
sink_info_cb_CardHandler(c, i, eol, userdata) ==
    << go_card_info_cb(ConstCast(i), eol, userdata) >>

sink_info_cb(c, i, eol, userdata) ==
    << go_sink_info_cb(ConstCast(i), eol, userdata) >>

(* Variant: the index is narrowed to 16 bits. *)
context_subscribe_cb_Narrow(c, t, idx, userdata) ==
    << go_context_subscribe_cb(t, U32(0, idx.lo), userdata) >>

context_subscribe_cb(c, t, idx, userdata) ==
    << go_context_subscribe_cb(t, idx, userdata) >>

(* Dispatch of a list adapter by name, as the event source calls the    *)
(* callback pointer it was given.                                        *)
CallListAdapter(fn, c, i, eol, userdata) ==
    IF fn = "card_info_cb" THEN card_info_cb(c, i, eol, userdata)
                           ELSE sink_info_cb(c, i, eol, userdata)

(* The adapters have no handler for a failure of the host handler: the  *)
(* call is a plain call, so a failure leaves the adapter the way it     *)
(* entered it and reaches the dispatch loop, which is then either       *)
(* unwound or taken down with the process.                              *)
AfterHandler(fn, outcome, d) ==
    IF outcome = "return"
    THEN /\ d = "running"
         /\ failedIn' = failedIn
    ELSE /\ d \in {"unwound", "terminated"}
         /\ failedIn' = fn

(* The handler sees the snapshot through the pointer it was given. *)
Seen(invs, m) ==
    [k \in 1..Len(invs) |-> [inv |-> invs[k], seen |-> Deref(m, invs[k].i)]]

Init ==
    /\ query = Idle
    /\ sub = Idle
    /\ srcCalls = << >>
    /\ hostLog = << >>
    /\ dispatch = "running"
    /\ failedIn = "none"

(* ------------------------------------------------------------------ *)
(* Event source: registration                                          *)
(* ------------------------------------------------------------------ *)

(* pa_context_get_card_info_list / pa_context_get_sink_info_list with  *)
(* the adapter as callback and u as userdata.                           *)
StartQuery(fn, c, u) ==
    /\ dispatch = "running"
    /\ query.state = "idle"
    /\ Len(srcCalls) < MaxCalls
    /\ query' = [state |-> "listing", fn |-> fn, c |-> c, userdata |-> u]
    /\ UNCHANGED <<sub, srcCalls, hostLog, dispatch, failedIn>>

(* pa_context_set_subscribe_callback(c, context_subscribe_cb, u). *)
Subscribe(c, u) ==
    /\ dispatch = "running"
    /\ sub.state = "idle"
    /\ sub' = [state |-> "subscribed", fn |-> "context_subscribe_cb", c |-> c,
               userdata |-> u]
    /\ UNCHANGED <<query, srcCalls, hostLog, dispatch, failedIn>>

(* ------------------------------------------------------------------ *)
(* Event source: one dispatched notification = one adapter call        *)
(* ------------------------------------------------------------------ *)

(* A list entry: the source fills a buffer, calls the adapter with      *)
(* (c, &buffer, 0, userdata) and releases the buffer when the adapter   *)
(* has returned: a snapshot lives for the duration of the call.         *)
ListData(fn, s, outcome) ==
    /\ dispatch = "running"
    /\ query.state = "listing"
    /\ query.fn = fn
    /\ Len(srcCalls) < MaxCalls
    /\ LET q == query
           m == [FreeMem EXCEPT ![s.addr] = s.fields]
           i == ConstPtr(s.addr)
       IN /\ srcCalls' = Append(srcCalls,
                [fn |-> fn, c |-> q.c, i |-> i, eol |-> 0,
                 userdata |-> q.userdata, sent |-> s.fields])
          /\ hostLog' = hostLog \o Seen(CallListAdapter(fn, q.c, i, 0, q.userdata), m)
    /\ \E d \in {"running", "unwound", "terminated"} :
          /\ AfterHandler(fn, outcome, d)
          /\ dispatch' = d
    /\ UNCHANGED <<query, sub>>

(* The end of a list: the adapter is called with (c, NULL, 1, userdata) *)
(* and the query is over.                                               *)
ListEnd(fn, outcome) ==
    /\ dispatch = "running"
    /\ query.state = "listing"
    /\ query.fn = fn
    /\ Len(srcCalls) < MaxCalls
    /\ LET q == query
           i == ConstPtr(NULL)
       IN /\ srcCalls' = Append(srcCalls,
                [fn |-> fn, c |-> q.c, i |-> i, eol |-> 1,
                 userdata |-> q.userdata, sent |-> NoFields])
          /\ hostLog' = hostLog \o Seen(CallListAdapter(fn, q.c, i, 1, q.userdata), FreeMem)
    /\ query' = Idle
    /\ \E d \in {"running", "unwound", "terminated"} :
          /\ AfterHandler(fn, outcome, d)
          /\ dispatch' = d
    /\ UNCHANGED sub

(* A subscription event (t, idx) for the subscribed context. *)
SubscriptionEvent(t, idx, outcome) ==
    /\ dispatch = "running"
    /\ sub.state = "subscribed"
    /\ Len(srcCalls) < MaxCalls
    /\ srcCalls' = Append(srcCalls,
          [fn |-> "context_subscribe_cb", c |-> sub.c, t |-> t, idx |-> idx,
           userdata |-> sub.userdata])
    /\ hostLog' = hostLog \o
          [k \in 1..Len(context_subscribe_cb(sub.c, t, idx, sub.userdata)) |->
              [inv |-> context_subscribe_cb(sub.c, t, idx, sub.userdata)[k],
               seen |-> NoFields]]
    /\ \E d \in {"running", "unwound", "terminated"} :
          /\ AfterHandler("context_subscribe_cb", outcome, d)
          /\ dispatch' = d
    /\ UNCHANGED <<query, sub>>

Next ==
    \/ \E fn \in ListAdapters, c \in Contexts, u \in UserData : StartQuery(fn, c, u)
    \/ \E c \in Contexts, u \in UserData : Subscribe(c, u)
    \/ \E fn \in ListAdapters, s \in Snapshots, o \in Outcomes :
          ListData(fn, s, o)
    \/ \E fn \in ListAdapters, o \in Outcomes : ListEnd(fn, o)
    \/ \E e \in Events, o \in Outcomes : SubscriptionEvent(e.t, e.idx, o)

Spec == Init /\ [][Next]_vars

(* ------------------------------------------------------------------ *)
(* Properties                                                          *)
(* ------------------------------------------------------------------ *)

HandlerOf(fn) ==
    CASE fn = "card_info_cb" -> "go_card_info_cb"
      [] fn = "sink_info_cb" -> "go_sink_info_cb"
      [] fn = "context_subscribe_cb" -> "go_context_subscribe_cb"

ListHandlers == {"go_card_info_cb", "go_sink_info_cb"}

Calls == 1..Len(srcCalls)
Invs == 1..Len(hostLog)

(* C1: the userdata the host handler receives in a call is the userdata *)
(* of that call, which is the one given when the query or subscription  *)
(* was registered.                                                      *)
C1_UserdataPassthrough ==
    [][Len(srcCalls') = Len(srcCalls) + 1 =>
         LET call == srcCalls'[Len(srcCalls')]
             reg == IF call.fn = "context_subscribe_cb" THEN sub ELSE query
         IN /\ reg.fn = call.fn
            /\ call.userdata = reg.userdata
            /\ Len(hostLog') > Len(hostLog)
            /\ \A k \in (Len(hostLog) + 1)..Len(hostLog') :
                  hostLog'[k].inv.userdata = reg.userdata]_vars

C1_Witness ==
    \E j, k \in Invs :
        /\ j \in Calls /\ k \in Calls
        /\ srcCalls[j].userdata = 1 /\ hostLog[j].inv.userdata = 1
        /\ srcCalls[k].userdata = 2 /\ hostLog[k].inv.userdata = 2

(* C2: the host-handler invocations are the adapter calls, one for one  *)
(* and in the same order: nothing is dropped, duplicated, batched or    *)
(* reordered.                                                           *)
C2_OneForOneInOrder ==
    /\ Len(hostLog) = Len(srcCalls)
    /\ \A k \in Calls :
          LET call == srcCalls[k]
              h == hostLog[k]
          IN /\ h.inv.fn = HandlerOf(call.fn)
             /\ h.inv.userdata = call.userdata
             /\ IF call.fn = "context_subscribe_cb"
                THEN h.inv.t = call.t /\ h.inv.idx = call.idx
                ELSE /\ h.inv.i.addr = call.i.addr
                     /\ h.inv.eol = call.eol
                     /\ h.seen = call.sent

(* relayDeviceInfo(src, snap1, false, ctx) then (src, null, true, ctx). *)
C2_Witness ==
    /\ Len(srcCalls) = 2 /\ Len(hostLog) = 2
    /\ srcCalls[1].fn = "card_info_cb" /\ srcCalls[1].i.addr = 1
    /\ srcCalls[1].eol = 0
    /\ srcCalls[2].fn = "card_info_cb" /\ srcCalls[2].i.addr = NULL
    /\ srcCalls[2].eol = 1
    /\ srcCalls[1].userdata = srcCalls[2].userdata
    /\ hostLog[1].inv = [fn |-> "go_card_info_cb", i |-> [addr |-> 1, const |-> FALSE],
                         eol |-> 0, userdata |-> srcCalls[1].userdata]
    /\ hostLog[2].inv = [fn |-> "go_card_info_cb", i |-> [addr |-> NULL, const |-> FALSE],
                         eol |-> 1, userdata |-> srcCalls[1].userdata]

SubCalls == SelectSeq(srcCalls, LAMBDA x : x.fn = "context_subscribe_cb")
SubInvs == SelectSeq(hostLog, LAMBDA x : x.inv.fn = "go_context_subscribe_cb")

(* C3: every context_subscribe_cb(c, t, idx, userdata) invokes          *)
(* go_context_subscribe_cb once, with exactly (t, idx).                 *)
C3_SubscribeEventExact ==
    LET sc == SubCalls
        si == SubInvs
    IN /\ Len(si) = Len(sc)
       /\ \A k \in 1..Len(sc) :
             /\ si[k].inv.t = sc[k].t
             /\ si[k].inv.idx = sc[k].idx

(* SINK|CHANGE for index 3, and an event for index 0xFFFFFFFF. *)
C3_Witness ==
    /\ \E k \in 1..Len(SubInvs) :
          /\ SubCalls[k].t = 16 /\ SubCalls[k].idx = [hi |-> 0, lo |-> 3]
          /\ SubInvs[k].inv.t = 16 /\ SubInvs[k].inv.idx = [hi |-> 0, lo |-> 3]
    /\ \E k \in 1..Len(SubInvs) :
          SubInvs[k].inv.idx = [hi |-> 65535, lo |-> 65535]

C5_LaterCallNotSkipped ==
    (failedIn = "sink_info_cb" /\ query.state = "idle" /\ Len(srcCalls) < MaxCalls)
        => ENABLED (\E c \in Contexts, u \in UserData : StartQuery("card_info_cb", c, u))

(* C6: a failure of a host handler never unwinds out of an adapter into *)
(* the dispatch loop: the loop keeps running, or the whole process is   *)
(* terminated.                                                          *)
C6_FailureContained ==
    failedIn # "none" => dispatch \in {"running", "terminated"}

(* The list query an adapter call belongs to: the number of list ends   *)
(* the event source issued before it.                                   *)
QueryOf(k) ==
    Cardinality({j \in 1..(k - 1) :
                    srcCalls[j].fn \in ListAdapters /\ srcCalls[j].eol # 0})

ListCalls == {k \in Calls : srcCalls[k].fn \in ListAdapters}

IsData(h) == h.inv.fn \in ListHandlers /\ h.inv.eol = 0 /\ h.inv.i.addr # NULL
IsEnd(h) == h.inv.fn \in ListHandlers /\ h.inv.eol # 0 /\ h.inv.i.addr = NULL

(* C7: the invocations of one list query are data invocations followed  *)
(* by the terminal one: every invocation before another of the same     *)
(* query is a data invocation for the same handler, and the terminal    *)
(* call of the source yields the terminal invocation, once.             *)
C7_EndOfListProtocol ==
    /\ Len(hostLog) = Len(srcCalls)
    /\ \A k \in ListCalls :
          /\ srcCalls[k].eol # 0 => IsEnd(hostLog[k])
          /\ srcCalls[k].eol = 0 => IsData(hostLog[k])
          /\ \A j \in ListCalls :
                (j < k /\ QueryOf(j) = QueryOf(k)) =>
                    /\ IsData(hostLog[j])
                    /\ hostLog[j].inv.fn = hostLog[k].inv.fn

C7_Witness ==
    /\ Len(hostLog) = 3
    /\ IsData(hostLog[1]) /\ IsData(hostLog[2]) /\ IsEnd(hostLog[3])
    /\ QueryOf(1) = QueryOf(3)
    /\ hostLog[1].inv.fn = "go_sink_info_cb"

(* C8: a list handler receives the snapshot the source passed (same     *)
(* address, same contents, the qualifier removed) and the same eol.     *)
C8_SnapshotUntouched ==
    \A k \in ListCalls :
        /\ k \in Invs
        /\ hostLog[k].inv.i.addr = srcCalls[k].i.addr
        /\ srcCalls[k].i.const /\ ~ hostLog[k].inv.i.const
        /\ hostLog[k].seen = srcCalls[k].sent
        /\ hostLog[k].inv.eol = srcCalls[k].eol

C8_Witness ==
    \E j, k \in ListCalls :
        /\ j \in Invs /\ k \in Invs
        /\ srcCalls[j].i.addr = 2 /\ hostLog[j].inv.i.addr = 2
        /\ hostLog[j].seen.index = 7
        /\ srcCalls[k].i.addr = 1 /\ hostLog[k].inv.i.addr = 1
        /\ hostLog[k].seen.index = 0

(* The arguments of an adapter call other than the source handle c. *)
SameButC(x, y) ==
    /\ x.fn = y.fn
    /\ x.userdata = y.userdata
    /\ IF x.fn = "context_subscribe_cb"
       THEN x.t = y.t /\ x.idx = y.idx
       ELSE x.i = y.i /\ x.eol = y.eol /\ x.sent = y.sent

CountCalls(fn) == Cardinality({k \in Calls : srcCalls[k].fn = fn})
CountInvs(h) == Cardinality({k \in Invs : hostLog[k].inv.fn = h})

(* C10: each adapter invokes the host handler of its own kind only:     *)
(* after any sequence of calls the invocations of each host handler     *)
(* number as many as the calls of its adapter.                          *)
C10_OwnHandlerOnly ==
    \A fn \in ListAdapters \cup {"context_subscribe_cb"} :
        CountInvs(HandlerOf(fn)) = CountCalls(fn)

C10_Witness ==
    /\ CountInvs("go_card_info_cb") = 1
    /\ CountInvs("go_sink_info_cb") = 1
    /\ CountInvs("go_context_subscribe_cb") = 1
    /\ CountCalls("card_info_cb") = 1
    /\ CountCalls("sink_info_cb") = 1
====
